---- MODULE Spec2Model ----
(***************************************************************************)
(* The counter stores of src/app/page.tsx (useStore, combinedStore,        *)
(* middlewareStore, apiStore), the remote counter client of                *)
(* src/unnamed/part_001 (getCount, increaseCount, resetCount) and the Home *)
(* component that wires them to buttons.                                   *)
(***************************************************************************)
EXTENDS Integers, Sequences, FiniteSets, Bags, TLC

VARIABLES
    useStore,         \* state of useStore: [count]
    combinedStore,    \* state of combinedStore: [count]
    middlewareStore,  \* state of middlewareStore: [count]
    apiStore,         \* state of apiStore: [count]
    localStorage,     \* durable storage: store name -> snapshot
    hydrated,         \* store name -> whether construction found a snapshot
    server,           \* the remote resource /count/1: [value, exists]
    pending,          \* bag of the apiStore actions suspended at their await
    rendered,         \* values held by the last render of Home
    useHist,          \* actions applied to useStore since construction
    combinedHist,     \* actions applied to combinedStore since construction
    middlewareHist,   \* actions applied to middlewareStore since it was
                      \* constructed from the initializer alone
    lastOp            \* the operation that produced the current state

vars == <<useStore, combinedStore, middlewareStore, apiStore, localStorage,
          hydrated, server, pending, rendered, useHist, combinedHist,
          middlewareHist, lastOp>>

localVars == <<useStore, combinedStore, useHist, combinedHist>>
middlewareVars == <<middlewareStore, middlewareHist>>
apiVars == <<apiStore, server, pending>>

----------------------------------------------------------------------------
(* Bounds *)

MaxCount == 2
MaxOps == 3
MaxInFlight == 2

----------------------------------------------------------------------------
(* JavaScript values: a value carries its typeof tag *)

Num(n) == [type |-> "number", val |-> n]
NumUndefined == [type |-> "undefined", val |-> 0]
Str(s) == [type |-> "string", val |-> s]
IdUndefined == [type |-> "undefined", val |-> ""]

\* id arguments a caller can pass: the one resource id, or no id
IdArgs == {Str("1"), IdUndefined}
\* curr arguments a caller can pass
CurrArgs == {Num(n) : n \in 0..(MaxCount - 1)} \cup {NumUndefined}
\* values the remote resource may hold when the page is first opened
InitialServerValues == {1}
\* arguments of setCount
SetCountArgs == {0, 2}

\* a ?? b
Nullish(a, b) == IF a.type = "undefined" THEN b ELSE a.val

----------------------------------------------------------------------------
(* zustand: set merges a partial record into the state *)

Merge(state, partial) ==
    [k \in DOMAIN state |-> IF k \in DOMAIN partial THEN partial[k] ELSE state[k]]

\* the initializers' state
InitialState == [count |-> 0]

----------------------------------------------------------------------------
(* persist: JSON snapshot of the state under the store's name *)

\* persist's name option of each store
middlewareStoreName == "countStore"

apiStoreNameOfMiddleware == "countStore"

apiStoreName == "apiStore"

PersistNames == {middlewareStoreName, apiStoreName}

RECURSIVE Digits(_)
Digits(n) == IF n < 10 THEN <<n>> ELSE Digits(n \div 10) \o <<n % 10>>

RECURSIVE ParseDigits(_)
ParseDigits(ds) ==
    IF Len(ds) = 0 THEN 0
    ELSE 10 * ParseDigits(SubSeq(ds, 1, Len(ds) - 1)) + ds[Len(ds)]

NoSnapshot == [present |-> FALSE, text |-> <<>>]

\* JSON.stringify of the state: the count as decimal text
Stringify(state) == [present |-> TRUE, text |-> Digits(state.count)]

\* JSON.parse of a snapshot
Parse(snapshot) == [count |-> ParseDigits(snapshot.text)]

\* construction of a persisted store: the snapshot, when present, is merged
\* over the initializer's state
Hydrate(snapshot) ==
    IF snapshot.present THEN Merge(InitialState, Parse(snapshot)) ELSE InitialState

\* persist's write after a set (and after hydration)
PersistWrite(storage, name, state) == [storage EXCEPT ![name] = Stringify(state)]

----------------------------------------------------------------------------
(* The stores' synchronous actions *)

useStoreIncrease(state) == Merge(state, [count |-> state.count + 1])
useStoreReset(state) == Merge(state, [count |-> 0])

useStoreSetCountKeepsCount(state, newCount) == Merge(state, [count |-> state.count])

useStoreSetCount(state, newCount) == Merge(state, [count |-> newCount])

combinedIncrease(state) == Merge(state, [count |-> state.count + 1])
combinedReset(state) == Merge(state, [count |-> 0])

middlewareIncreaseTwice(state) == Merge(state, [count |-> state.count + 2])

middlewareIncrease(state) == Merge(state, [count |-> state.count + 1])
middlewareReset(state) == Merge(state, [count |-> 0])

----------------------------------------------------------------------------
(* createSelectors and the render of Home *)

\* createSelectors(store).use.count(): reads the store's current count
CreateSelectors(store) == [count |-> store.count]

HomeOtherStoreSelectors(u, c, m, a) ==
    [count |-> u.count, combinedCount |-> c.count, middlewareCount |-> m.count,
     countSelector |-> CreateSelectors(c).count, apiCount |-> a.count]

Home(u, c, m, a) ==
    [count |-> u.count, combinedCount |-> c.count, middlewareCount |-> m.count,
     countSelector |-> CreateSelectors(u).count, apiCount |-> a.count]

----------------------------------------------------------------------------
(* Remote counter client *)

NoResponse == [kind |-> "none", status |-> 0, value |-> NumUndefined]
NetworkErrorResponse == [kind |-> "neterr", status |-> 0, value |-> NumUndefined]

getCount(id) == [id |-> id, method |-> "GET", body |-> NumUndefined]

increaseCount(id, curr) == [id |-> id, method |-> "PUT", body |-> Num(curr + 1)]

resetCount(id) == [id |-> id, method |-> "PUT", body |-> Num(0)]

\* .then((res) => res.json()).then(({ value }) => value)
ThenValueSwallowsErrors(resp) ==
    IF resp.kind = "json"
    THEN [status |-> "resolved", value |-> resp.value]
    ELSE [status |-> "resolved", value |-> NumUndefined]

ThenValue(resp) ==
    IF resp.kind = "json"
    THEN [status |-> "resolved", value |-> resp.value]
    ELSE [status |-> "rejected", value |-> NumUndefined]

\* The remote service: GET reads the resource, PUT stores the body and echoes
\* it; an absent resource is answered 404, with a JSON body that has no value
\* field or with a body that is not JSON.
ServerReplies(http, srv) ==
    IF srv.exists /\ http.id = "1"
    THEN IF http.method = "GET"
         THEN {[resp |-> [kind |-> "json", status |-> 200, value |-> Num(srv.value)],
                srv |-> srv]}
         ELSE {[resp |-> [kind |-> "json", status |-> 200, value |-> Num(http.body.val)],
                srv |-> [value |-> http.body.val, exists |-> TRUE]]}
    ELSE {[resp |-> [kind |-> k, status |-> 404, value |-> NumUndefined], srv |-> srv]
            : k \in {"json", "text"}}

----------------------------------------------------------------------------
(* apiStore: validation and the continuations after the await *)

apiStoreGetValid(id) == id.type = "string"
apiStoreIncreaseValid(id, curr) == id.type = "string" /\ curr.type = "number"

apiStoreResetUnvalidated(id) == TRUE

apiStoreResetValid(id) == id.type = "string"

apiStoreGetSetKeepsLarger(state, count) ==
    Merge(state, [count |-> IF state.count > Nullish(count, 0) THEN state.count
                            ELSE Nullish(count, 0)])

apiStoreGetSet(state, count) == Merge(state, [count |-> Nullish(count, 0)])

apiStoreIncreaseSetLocal(state, count) == Merge(state, [count |-> state.count + 1])

apiStoreIncreaseSet(state, count) ==
    Merge(state, [count |-> Nullish(count, state.count + 1)])

apiStoreResetSet(state) == Merge(state, [count |-> 0])

\* a suspended remote action
Request(op, id, curr, http) ==
    [id |-> id, curr |-> curr, resp |-> NoResponse, http |-> http, op |-> op,
     stage |-> "sent", race |-> "none"]

NoRequest == Request("none", "", 0, getCount(""))

\* the operation just performed: its arguments, its outcome, the suspended
\* action it concerns and the count apiStore held before it
Op(name, id, curr, outcome, req) ==
    [name |-> name, id |-> id, curr |-> curr, outcome |-> outcome, req |-> req,
     before |-> apiStore.count]

LocalOp(name) == Op(name, IdUndefined, NumUndefined, "done", NoRequest)

\* useEffect(() => { apiGet('1') }, [apiGet])
MountRequest == Request("get", "1", 0, getCount("1"))

BagOf(r) == SetToBag({r})

RECURSIVE SumCopies(_, _)
SumCopies(B, S) ==
    IF S = {} THEN 0
    ELSE LET x == CHOOSE x \in S : TRUE IN B[x] + SumCopies(B, S \ {x})

\* the bag of f[x] for the elements x of bag B
MapBag(B, f) ==
    LET S == BagToSet(B)
    IN  [y \in {f[x] : x \in S} |-> SumCopies(B, {x \in S : f[x] = y})]

----------------------------------------------------------------------------
(* Initial state: first visit, nothing in durable storage *)

Init ==
    /\ useStore = InitialState
    /\ combinedStore = InitialState
    /\ middlewareStore = Hydrate(NoSnapshot)
    /\ apiStore = Hydrate(NoSnapshot)
    /\ localStorage = [n \in PersistNames |-> Stringify(Hydrate(NoSnapshot))]
    /\ hydrated = [n \in PersistNames |-> FALSE]
    /\ \E e \in BOOLEAN, v \in InitialServerValues :
          server = [value |-> IF e THEN v ELSE 0, exists |-> e]
    /\ pending = BagOf(MountRequest)
    /\ rendered = Home(InitialState, InitialState, InitialState, InitialState)
    /\ useHist = <<>>
    /\ combinedHist = <<>>
    /\ middlewareHist = <<>>
    /\ lastOp = [name |-> "load", id |-> IdUndefined, curr |-> NumUndefined,
                 outcome |-> "done", req |-> NoRequest, before |-> 0]

----------------------------------------------------------------------------
(* useStore: the Add / Reset buttons, the selector buttons, setCount *)

UseStoreSet(next, entry, name) ==
    /\ Len(useHist) < MaxOps
    /\ next.count <= MaxCount
    /\ useStore' = next
    /\ useHist' = Append(useHist, entry)
    /\ rendered' = Home(next, combinedStore, middlewareStore, apiStore)
    /\ lastOp' = LocalOp(name)
    /\ UNCHANGED <<combinedStore, combinedHist, middlewareVars, apiVars,
                   localStorage, hydrated>>

ClickAdd ==
    UseStoreSet(useStoreIncrease(useStore), [name |-> "increase", arg |-> 0], "clickAdd")

ClickReset ==
    UseStoreSet(useStoreReset(useStore), [name |-> "reset", arg |-> 0], "clickReset")

ClickSelectorAdd ==
    UseStoreSet(useStoreIncrease(useStore), [name |-> "increase", arg |-> 0],
                "clickSelectorAdd")

ClickSelectorReset ==
    UseStoreSet(useStoreReset(useStore), [name |-> "reset", arg |-> 0],
                "clickSelectorReset")

SetCount ==
    \E newCount \in SetCountArgs :
        UseStoreSet(useStoreSetCount(useStore, newCount),
                    [name |-> "setCount", arg |-> newCount], "setCount")

(* combinedStore: the Add / Reset buttons *)

CombinedSet(next, entry, name) ==
    /\ Len(combinedHist) < MaxOps
    /\ next.count <= MaxCount
    /\ combinedStore' = next
    /\ combinedHist' = Append(combinedHist, entry)
    /\ rendered' = Home(useStore, next, middlewareStore, apiStore)
    /\ lastOp' = LocalOp(name)
    /\ UNCHANGED <<useStore, useHist, middlewareVars, apiVars, localStorage, hydrated>>

ClickCombinedAdd ==
    CombinedSet(combinedIncrease(combinedStore), [name |-> "increase", arg |-> 0],
                "clickCombinedAdd")

ClickCombinedReset ==
    CombinedSet(combinedReset(combinedStore), [name |-> "reset", arg |-> 0],
                "clickCombinedReset")

(* middlewareStore: the Add / Reset buttons; persist writes the snapshot  *)
(* after the set, devtools only reports the change                         *)

MiddlewareSet(next, entry, name) ==
    /\ Len(middlewareHist) < MaxOps
    /\ next.count <= MaxCount
    /\ middlewareStore' = next
    /\ middlewareHist' = IF hydrated[middlewareStoreName] THEN middlewareHist
                         ELSE Append(middlewareHist, entry)
    /\ localStorage' = PersistWrite(localStorage, middlewareStoreName, next)
    /\ rendered' = Home(useStore, combinedStore, next, apiStore)
    /\ lastOp' = LocalOp(name)
    /\ UNCHANGED <<localVars, apiVars, hydrated>>

ClickMiddlewareAdd ==
    MiddlewareSet(middlewareIncrease(middlewareStore), [name |-> "increase", arg |-> 0],
                  "clickMiddlewareAdd")

ClickMiddlewareReset ==
    MiddlewareSet(middlewareReset(middlewareStore), [name |-> "reset", arg |-> 0],
                  "clickMiddlewareReset")

----------------------------------------------------------------------------
(* Page reload: the module is evaluated again. The stores are constructed  *)
(* anew, the persisted ones from their snapshots; suspended actions are    *)
(* gone; Home mounts and its effect calls apiGet('1').                     *)

Reload ==
    LET m == Hydrate(localStorage[middlewareStoreName])
        a == Hydrate(localStorage[apiStoreName])
    IN  /\ useStore' = InitialState
        /\ combinedStore' = InitialState
        /\ middlewareStore' = m
        /\ apiStore' = a
        /\ localStorage' = PersistWrite(PersistWrite(localStorage, middlewareStoreName, m),
                                        apiStoreName, a)
        /\ hydrated' = [n \in PersistNames |-> localStorage[n].present]
        /\ pending' = BagOf(MountRequest)
        /\ rendered' = Home(InitialState, InitialState, m, a)
        /\ useHist' = <<>>
        /\ combinedHist' = <<>>
        /\ middlewareHist' = <<>>
        /\ lastOp' = LocalOp("reload")
        /\ UNCHANGED server

----------------------------------------------------------------------------
(* apiStore: calling an action. A valid call sends its request and         *)
(* suspends at the await; an invalid call throws before any request.       *)

CanSend == BagCardinality(pending) < MaxInFlight

\* an increase issued while another increase of the same id and curr is suspended
Twin(r, id, curr) == r.op = "increase" /\ r.id = id /\ r.curr = curr

Send(r) ==
    IF r.op = "increase" /\ \E q \in BagToSet(pending) : Twin(q, r.id, r.curr)
    THEN LET mark == [q \in BagToSet(pending) |->
                         IF Twin(q, r.id, r.curr) /\ q.race = "none"
                         THEN [q EXCEPT !.race = "raced"] ELSE q]
         IN  MapBag(pending, mark) (+) BagOf([r EXCEPT !.race = "raced"])
    ELSE pending (+) BagOf(r)

Call(name, valid, id, curr, r) ==
    /\ valid => CanSend
    /\ pending' = IF valid THEN Send(r) ELSE pending
    /\ lastOp' = Op(name, id, curr, IF valid THEN "suspended" ELSE "rejected",
                    IF valid THEN r ELSE NoRequest)
    /\ UNCHANGED <<localVars, middlewareVars, apiStore, server, localStorage,
                   hydrated, rendered>>

CallGet(name, id) ==
    Call(name, apiStoreGetValid(id), id, NumUndefined,
         Request("get", id.val, 0, getCount(id.val)))

CallIncrease(name, id, curr) ==
    /\ curr.type = "number" => curr.val < MaxCount
    /\ Call(name, apiStoreIncreaseValid(id, curr), id, curr,
            Request("increase", id.val, curr.val, increaseCount(id.val, curr.val)))

CallReset(name, id) ==
    Call(name, apiStoreResetValid(id), id, NumUndefined,
         Request("reset", id.val, 0, resetCount(id.val)))

ApiGet == \E id \in IdArgs : CallGet("get", id)

ApiIncrease == \E id \in IdArgs, curr \in CurrArgs : CallIncrease("increase", id, curr)

ApiReset == \E id \in IdArgs : CallReset("reset", id)

\* <Button onClick={() => apiIncrease('1', apiCount)}>
ClickApiAdd == CallIncrease("clickApiAdd", Str("1"), Num(rendered.apiCount))

\* <Button onClick={() => apiReset()}>
ClickApiReset == CallReset("clickApiReset", IdUndefined)

----------------------------------------------------------------------------
(* The request on the wire *)

Replied(r, resp) == [r EXCEPT !.stage = "replied", !.resp = resp]

\* fetch fails before the request reaches the service
NetworkFail ==
    \E r \in BagToSet(pending) :
        /\ r.stage = "sent"
        /\ pending' = (pending (-) BagOf(r)) (+) BagOf(Replied(r, NetworkErrorResponse))
        /\ lastOp' = LocalOp("networkFail")
        /\ UNCHANGED <<localVars, middlewareVars, apiStore, server, localStorage,
                       hydrated, rendered>>

\* the service handles the request; the response arrives or is lost
ServerHandle ==
    \E r \in BagToSet(pending) :
        /\ r.stage = "sent"
        /\ \E rep \in ServerReplies(r.http, server), lost \in BOOLEAN :
              /\ server' = rep.srv
              /\ pending' = (pending (-) BagOf(r)) (+)
                            BagOf(Replied(r, IF lost THEN NetworkErrorResponse
                                             ELSE rep.resp))
        /\ lastOp' = LocalOp("serverHandle")
        /\ UNCHANGED <<localVars, middlewareVars, apiStore, localStorage,
                       hydrated, rendered>>

----------------------------------------------------------------------------
(* apiStore: an action resumes after its await *)

\* the actions still suspended once r has settled
Remaining(r, resolved) ==
    LET rest == pending (-) BagOf(r)
        mark == [q \in BagToSet(rest) |->
                    IF resolved /\ r.op = "increase" /\ r.race # "none"
                       /\ Twin(q, r.id, r.curr) /\ q.race # "none"
                    THEN [q EXCEPT !.race = "twinDone"] ELSE q]
    IN  MapBag(rest, mark)

Settle(r, name, next) ==
    LET out == ThenValue(r.resp)
        resolved == out.status = "resolved"
    IN  /\ r.stage = "replied"
        /\ resolved => next.count <= MaxCount
        /\ pending' = Remaining(r, resolved)
        /\ apiStore' = IF resolved THEN next ELSE apiStore
        /\ localStorage' = IF resolved THEN PersistWrite(localStorage, apiStoreName, next)
                           ELSE localStorage
        /\ rendered' = Home(useStore, combinedStore, middlewareStore, apiStore')
        /\ lastOp' = Op(name, Str(r.id), Num(r.curr), out.status, r)
        /\ UNCHANGED <<localVars, middlewareVars, server, hydrated>>

SettleGet ==
    \E r \in BagToSet(pending) :
        /\ r.op = "get"
        /\ Settle(r, "settleGet", apiStoreGetSet(apiStore, ThenValue(r.resp).value))

SettleIncrease ==
    \E r \in BagToSet(pending) :
        /\ r.op = "increase"
        /\ Settle(r, "settleIncrease",
                  apiStoreIncreaseSet(apiStore, ThenValue(r.resp).value))

SettleReset ==
    \E r \in BagToSet(pending) :
        /\ r.op = "reset"
        /\ Settle(r, "settleReset", apiStoreResetSet(apiStore))

----------------
(* Specifications *)

\* the stores without remote calls, within one page load
NextLocal ==
    \/ ClickAdd
    \/ ClickReset
    \/ ClickSelectorAdd
    \/ ClickSelectorReset
    \/ SetCount
    \/ ClickCombinedAdd
    \/ ClickCombinedReset
    \/ ClickMiddlewareAdd
    \/ ClickMiddlewareReset

SpecLocal == Init /\ [][NextLocal]_vars

\* the remote-backed store, its actions called with any arguments
NextApi ==
    \/ ApiGet
    \/ ApiIncrease
    \/ ApiReset
    \/ ClickApiAdd
    \/ ClickApiReset
    \/ NetworkFail
    \/ ServerHandle
    \/ SettleGet
    \/ SettleIncrease
    \/ SettleReset

SpecApi == Init /\ [][NextApi]_vars

\* the persisted stores as the page drives them, across reloads
NextPersist ==
    \/ ClickMiddlewareAdd
    \/ ClickMiddlewareReset
    \/ ClickApiAdd
    \/ ClickApiReset
    \/ NetworkFail
    \/ ServerHandle
    \/ SettleGet
    \/ SettleIncrease
    \/ Reload

SpecPersist == Init /\ [][NextPersist]_vars

Next == NextLocal \/ NextApi \/ Reload

Spec == Init /\ [][Next]_vars

----------------------------------------------------------------------------
(* Properties *)

Settles == {"settleGet", "settleIncrease", "settleReset"}

ApplyAction(c, a) ==
    CASE a.name = "increase" -> c + 1
      [] a.name = "reset" -> 0
      [] a.name = "setCount" -> a.arg

RECURSIVE FoldActions(_, _)
FoldActions(h, c) ==
    IF h = <<>> THEN c ELSE FoldActions(Tail(h), ApplyAction(c, Head(h)))

ActionNames(h) == {h[i].name : i \in DOMAIN h}

\* C1: the count of useStore equals the left fold, from 0, of the actions
\* applied to it (increase: c + 1, reset: 0, setCount(n): n), each action
\* applied exactly once.
C1_CountIsFoldOfActions == useStore.count = FoldActions(useHist, 0)

C1_Witness ==
    /\ Len(useHist) >= 3
    /\ ActionNames(useHist) = {"increase", "reset", "setCount"}
    /\ useStore.count > 0

\* an apiStore call whose arguments fail the action's typeof checks
InvalidCall(op) ==
    \/ op.name \in {"get", "reset", "clickApiReset"} /\ op.id.type # "string"
    \/ /\ op.name \in {"increase", "clickApiAdd"}
       /\ (op.id.type # "string" \/ op.curr.type # "number")

\* C2: an apiStore call with an id that is not a string (get, reset, and the
\* API Reset button, which passes no id), or an increase with an id that is
\* not a string or a current value that is not a number, is rejected at once:
\* no request is sent, and the count, its snapshot and the remote counter are
\* as before the call.
C2_InvalidCallRejectsWithoutEffect ==
    [][/\ lastOp'.name = "clickApiReset" => InvalidCall(lastOp')
       /\ InvalidCall(lastOp') =>
            /\ lastOp'.outcome = "rejected"
            /\ UNCHANGED <<pending, apiStore, localStorage, server, rendered>>]_vars

C2_Witness ==
    /\ lastOp.name = "clickApiReset"
    /\ lastOp.outcome = "rejected"
    /\ apiStore.count > 0
    /\ pending = EmptyBag

\* C3: when the remote call of get, increase or reset fails with a transport
\* error the action rejects and the count and its snapshot are unchanged; the
\* count changes only in a step where a remote call completed successfully.
C3_TransportErrorLeavesStore ==
    [][/\ (lastOp'.name \in Settles /\ lastOp'.req.resp.kind = "neterr") =>
            /\ lastOp'.outcome = "rejected"
            /\ apiStore' = apiStore
            /\ localStorage' = localStorage
       /\ apiStore' # apiStore =>
            /\ lastOp'.name \in Settles
            /\ lastOp'.outcome = "resolved"
            /\ lastOp'.req.resp.kind = "json"]_vars

C3_Witness ==
    /\ lastOp.name = "settleIncrease"
    /\ lastOp.req.resp.kind = "neterr"
    /\ lastOp.outcome = "rejected"
    /\ server.exists
    /\ server.value = lastOp.req.curr + 1
    /\ apiStore.count # server.value

\* C4: get resolves to the value found when the resource exists; when the
\* resource is absent (the service answers 404) it fails and the count keeps
\* its previous value.
C4_GetFailsWhenAbsent ==
    [][lastOp'.name = "settleGet" =>
        /\ (lastOp'.req.resp.kind = "json" /\ lastOp'.req.resp.status = 200) =>
              /\ lastOp'.outcome = "resolved"
              /\ apiStore'.count = lastOp'.req.resp.value.val
        /\ lastOp'.req.resp.status = 404 =>
              /\ lastOp'.outcome = "rejected"
              /\ apiStore' = apiStore]_vars

\* C5: increase sends a PUT whose value is current + 1, and for
\* every reply with which the action completes the count equals the value the
\* server reported.
C5_CountIsServerValueForEveryReply ==
    [][/\ (lastOp'.name \in {"increase", "clickApiAdd"}
           /\ lastOp'.outcome = "suspended") =>
            lastOp'.req.http =
                [id |-> lastOp'.id.val, method |-> "PUT",
                 body |-> Num(lastOp'.curr.val + 1)]
       /\ (lastOp'.name = "settleIncrease" /\ lastOp'.outcome = "resolved") =>
            /\ lastOp'.req.resp.value.type = "number"
            /\ apiStore'.count = lastOp'.req.resp.value.val]_vars

SnapshotHolds(name, store) ==
    /\ localStorage[name].present
    /\ Parse(localStorage[name]).count = store.count

\* C6: the snapshot under each persisted store's name holds the store's
\* count, so a store constructed afterwards (a reload) starts with the count
\* it had; a store constructed with no snapshot starts at 0.
C6_PersistRoundTrip ==
    /\ [](/\ SnapshotHolds(middlewareStoreName, middlewareStore)
          /\ SnapshotHolds(apiStoreName, apiStore)
          /\ lastOp.name = "load" =>
                /\ \A n \in PersistNames : ~hydrated[n]
                /\ middlewareStore.count = 0
                /\ apiStore.count = 0)
    /\ [][lastOp'.name = "reload" =>
            /\ middlewareStore'.count = middlewareStore.count
            /\ apiStore'.count = apiStore.count
            /\ \A n \in PersistNames : hydrated'[n]]_vars

C6_Witness ==
    /\ lastOp.name = "reload"
    /\ middlewareStore.count = 2
    /\ apiStore.count = 1
    /\ hydrated[middlewareStoreName]
    /\ hydrated[apiStoreName]

\* C7: whenever the same sequence of increase / reset actions has been
\* applied to useStore, combinedStore and middlewareStore (the latter
\* constructed with no snapshot), their counts are equal.
C7_SameActionsSameCount ==
    /\ combinedHist = useHist => combinedStore.count = useStore.count
    /\ (~hydrated[middlewareStoreName] /\ middlewareHist = useHist) =>
          middlewareStore.count = useStore.count
    /\ (~hydrated[middlewareStoreName] /\ middlewareHist = combinedHist) =>
          middlewareStore.count = combinedStore.count

C7_Witness ==
    /\ ~hydrated[middlewareStoreName]
    /\ Len(useHist) >= 3
    /\ ActionNames(useHist) = {"increase", "reset"}
    /\ combinedHist = useHist
    /\ middlewareHist = useHist
    /\ useStore.count > 0

\* C8: the value the derived count selector gives Home equals useStore's
\* count after every action, through the store's buttons or the selectors'
\* buttons: 0 before any action, 1 after one increase.
C8_SelectorReadsCurrentCount ==
    /\ rendered.countSelector = useStore.count
    /\ useHist = <<>> => rendered.countSelector = 0
    /\ useHist = <<[name |-> "increase", arg |-> 0]>> => rendered.countSelector = 1

C8_Witness ==
    /\ lastOp.name = "clickSelectorAdd"
    /\ Len(useHist) = 2
    /\ rendered.countSelector = 2

\* the count a completed response carries into the store
Carried(r, state) ==
    CASE r.op = "get" -> Nullish(r.resp.value, 0)
      [] r.op = "increase" -> Nullish(r.resp.value, state.count + 1)
      [] r.op = "reset" -> 0

\* C9: no ordering is kept between suspended actions: when a response
\* completes successfully the count becomes what it carried, whatever the
\* count and the remote counter hold by then.
C9_LastCompletedResponseWins ==
    [][(lastOp'.name \in Settles /\ lastOp'.outcome = "resolved") =>
          apiStore'.count = Carried(lastOp'.req, apiStore)]_vars

C9_Witness ==
    /\ lastOp.name = "settleGet"
    /\ lastOp.outcome = "resolved"
    /\ lastOp.req.resp.value.type = "number"
    /\ lastOp.before = server.value
    /\ pending = EmptyBag
    /\ server.exists
    /\ apiStore.count # server.value

\* C10: the remote counter only ever takes the value a suspended PUT carries,
\* which for an increase issued with current value c is c + 1, whatever the
\* counter held; and of two increases issued with the same c before either
\* completes, the second to complete leaves the count at c + 1.
C10_ConcurrentIncreasesLoseUpdate ==
    [][/\ server' # server =>
            \E r \in BagToSet(pending) :
                /\ r.stage = "sent"
                /\ r.http.method = "PUT"
                /\ server'.value = r.http.body.val
                /\ r.op = "increase" => server'.value = r.curr + 1
       /\ (/\ lastOp'.name = "settleIncrease"
           /\ lastOp'.outcome = "resolved"
           /\ lastOp'.req.race = "twinDone"
           /\ lastOp'.req.resp.value.type = "number") =>
            apiStore'.count = lastOp'.req.curr + 1]_vars

C10_Witness ==
    /\ lastOp.name = "settleIncrease"
    /\ lastOp.outcome = "resolved"
    /\ lastOp.req.race = "twinDone"
    /\ lastOp.req.resp.value.type = "number"
    /\ lastOp.before = lastOp.req.curr + 1
    /\ pending = EmptyBag
    /\ server.exists
    /\ server.value = lastOp.req.curr + 1
    /\ apiStore.count = lastOp.req.curr + 1

====
